---- MODULE Spec2Model ----
(***************************************************************************)
(* Job lifecycle of the financial document analyzer: the FastAPI handlers  *)
(* of main.py (sync and async submission, status, delete), the Celery task *)
(* of worker.py (attempts, retries, cleanup) and the analyses table of     *)
(* database.py.  The CrewAI crew is an opaque call that returns a report   *)
(* or raises.                                                              *)
(***************************************************************************)
EXTENDS Integers, Sequences, FiniteSets, TLC

\* ---------------------------------------------------------------- bounds
MaxJobs == 2          \* uuid4 task ids handed out in one run
MaxFaults == 3        \* things that go wrong in one run: an engine call or an
                      \* os.remove that raises, a refused request, a broker
                      \* that is down, a duplicate delivery, a DELETE

\* ------------------------------------------------------- program constants
max_retries == 2      \* self.retry(..., max_retries=2)

default_limit == 20   \* limit: int = 20
max_limit == 100      \* limit = min(limit, 100)

Ids == 1..MaxJobs
None == "None"

\* file names a client may upload, as character sequences
Filenames ==
    { <<"a", ".", "P", "D", "F">>,
      <<"p", "d", "f">> }

\* what financial_crew.kickoff can do: return a report or raise
\* the message of the n-th exception of a run: no two are alike
EngineError(n) == "e" \o ToString(n)

EngineOutcomes(n) ==
    {[ok |-> TRUE, val |-> "report"], [ok |-> FALSE, val |-> EngineError(n + 1)]}

\* sqlalchemy.orm.exc.StaleDataError: UPDATE of a row that is gone
StaleDataError == "stale"

VARIABLES
    store,      \* analyses table: task id -> AnalysisRecord row
    files,      \* task ids whose data/financial_document_<id>.pdf exists
    nextId,     \* number of task ids generated so far
    mode,       \* per id: "none" | "sync" | "async" (the endpoint that made it)
    pc,         \* per id: position of its handler / delivery
    rec,        \* per id: the worker's local `record` is not None
    retries,    \* per id: self.request.retries of the delivery
    attempts,   \* per id: engine calls made for it: by the sync handler, or
                \* by the worker for the current delivery
    out,        \* per id: what the last attempt reported to Celery
    lastExc,    \* per id: message of the exception of the last failed attempt
    rmFailed,   \* per id: the last os.remove of its file raised
    rmCount,    \* per id: successful os.remove calls on its file
    deleted,    \* per id: "no" | "idle" | "inflight" (how DELETE found it)
    dup,        \* per id: its delivery was duplicated
    faults,     \* things that went wrong so far
    orig,       \* per id: the row's outcome when a duplicate was delivered
    reply,      \* per id: status code answered to the submission that made it
    body,       \* per id: the "analysis" of the response to that submission
    resp,       \* the last HTTP response that belongs to no job made:
                \* a refused submission or a DELETE
    hist        \* the last GET /history: the table it ran on, its
                \* parameters and the rows it returned

vars == <<store, files, nextId, mode, pc, rec, retries, attempts, out,
          lastExc, rmFailed, rmCount, deleted, dup, faults, orig, reply, body,
          resp, hist>>

\* ------------------------------------------------------------ pure helpers

\* str.lower() on one character
LowerChar(c) ==
    CASE c = "P" -> "p"
      [] c = "D" -> "d"
      [] c = "F" -> "f"
      [] c = "A" -> "a"
      [] OTHER -> c

lower(s) == [i \in 1..Len(s) |-> LowerChar(s[i])]

endswith(s, suf) ==
    /\ Len(s) >= Len(suf)
    /\ SubSeq(s, Len(s) - Len(suf) + 1, Len(s)) = suf

DotPdf == <<".", "p", "d", "f">>

\* the check with the dot of the suffix forgotten
IsPdf_NoDot(f) == endswith(lower(f), Tail(DotPdf))

\* file.filename.lower().endswith(".pdf")
IsPdf(f) == endswith(lower(f), DotPdf)

\* AnalysisRecord(id=..., filename=..., status=...) with the column defaults;
\* created_at (default utcnow) is the rank of the insert in time
AnalysisRecord(f, st, now) ==
    [filename |-> f, status |-> st, result |-> None, error |-> None,
     created_at |-> now, completed_at |-> None, duration_seconds |-> None]

NoRow == AnalysisRecord(<<>>, "absent", 0)

\* what a row says about how the job went
Outcome(r) == [status |-> r.status, result |-> r.result, error |-> r.error]

\* db.query(AnalysisRecord).filter(AnalysisRecord.id == task_id).first()
first(db, j) == IF j \in DOMAIN db THEN db[j] ELSE NoRow

Found(db, j) == j \in DOMAIN db

\* the insert left uncommitted
Insert_Lost(db, j, r) == db

\* db.add(record); db.commit()
Insert(db, j, r) == [k \in DOMAIN db \cup {j} |-> IF k = j THEN r ELSE db[k]]

\* db.delete(record); db.commit()
Remove(db, j) == [k \in DOMAIN db \ {j} |-> db[k]]

\* the update applied to every row of the table
MarkProcessing_All(db, j) ==
    [k \in DOMAIN db |-> [db[k] EXCEPT !.status = "processing"]]

\* record.status = "processing"; db.commit()   (worker, when record is found)
MarkProcessing(db, j) ==
    IF Found(db, j) THEN [db EXCEPT ![j].status = "processing"] ELSE db

\* the update refusing a record that carries an error
SaveCompleted_UnlessError(db, j, result) ==
    IF Found(db, j) /\ db[j].error = None
    THEN [db EXCEPT ![j].status = "completed", ![j].result = result,
                    ![j].completed_at = "set", ![j].duration_seconds = "set"]
    ELSE db

\* the update storing the result and leaving the status as it was
SaveCompleted_ResultOnly(db, j, result) ==
    IF Found(db, j)
    THEN [db EXCEPT ![j].result = result,
                    ![j].completed_at = "set", ![j].duration_seconds = "set"]
    ELSE db

\* record.status = "completed"; record.result = ...; timing; db.commit()
\* an UPDATE: it changes the row when it is there and never inserts one
SaveCompleted(db, j, result) ==
    IF Found(db, j)
    THEN [db EXCEPT ![j].status = "completed", ![j].result = result,
                    ![j].completed_at = "set", ![j].duration_seconds = "set"]
    ELSE db

\* the except block writing the failure as an upsert
SaveFailedWorker_Upsert(db, j, msg) ==
    LET r == first(db, j) IN
    Insert(db, j, [r EXCEPT !.status = "failed", !.error = msg,
                            !.completed_at = "set", !.duration_seconds = "set"])

\* worker except block: re-query, then status/error/completed_at/duration
SaveFailedWorker(db, j, msg) ==
    IF Found(db, j)
    THEN [db EXCEPT ![j].status = "failed", ![j].error = msg,
                    ![j].completed_at = "set", ![j].duration_seconds = "set"]
    ELSE db

\* the except block marking the record failed without the message
SaveFailedSync_NoError(db, j, msg) ==
    IF Found(db, j)
    THEN [db EXCEPT ![j].status = "failed", ![j].completed_at = "set"]
    ELSE db

\* the except block keeping the message and leaving the status for later
SaveFailedSync_Deferred(db, j, msg) ==
    IF Found(db, j)
    THEN [db EXCEPT ![j].error = msg, ![j].completed_at = "set"]
    ELSE db

\* sync except block: re-query, then status/error/completed_at (no duration)
SaveFailedSync(db, j, msg) ==
    IF Found(db, j)
    THEN [db EXCEPT ![j].status = "failed", ![j].error = msg,
                    ![j].completed_at = "set"]
    ELSE db

\* the retry budget compared one too late
self_retry_OffByOne(r) == IF r > max_retries THEN "raise" ELSE "retry"

\* self.retry(exc=e, countdown=5, max_retries=2): Celery re-sends the message
\* with retries + 1 unless that exceeds max_retries, and then re-raises exc
self_retry(r) == IF r + 1 > max_retries THEN "raise" ELSE "retry"

\* a task without the finally block
Cleanup_Skipped(fs, j, rmOk, failed, count) == <<fs, failed, count>>

\* finally: if os.path.exists(file_path): try os.remove(...) except: pass
\* rmOk is whether os.remove succeeds; the result is <<files, failed, count>>
Cleanup(fs, j, rmOk, failed, count) ==
    IF j \in fs
    THEN IF rmOk THEN <<fs \ {j}, FALSE, count + 1>>
                 ELSE <<fs, TRUE, count>>
    ELSE <<fs, failed, count>>

\* the finally block without its try/except around os.remove
RemoveEscapes_Unguarded(rmOk) == ~rmOk

\* try: os.remove(file_path) / except Exception: pass -- whether the
\* exception of an os.remove that raised leaves the finally block
RemoveEscapes(rmOk) == FALSE

Min(a, b) == IF a <= b THEN a ELSE b

\* the column values a client may filter on
Statuses == <<"queued", "processing", "completed", "failed">>

\* `if status:` -- None and the empty string are falsy
Truthy(x) == x # None /\ x # ""

\* .order_by(AnalysisRecord.created_at.desc()): the ids of db by created_at,
\* latest first; a row's place is one more than the number of later rows
order_by_created_at_desc(db) ==
    LET place == [x \in DOMAIN db |->
                    1 + Cardinality({y \in DOMAIN db :
                            db[y].created_at > db[x].created_at})]
    IN [i \in 1..Cardinality(DOMAIN db) |->
           CHOOSE x \in DOMAIN db : place[x] = i]

\* .limit(n) on SQLite: LIMIT n keeps the first n rows, and a negative n
\* means there is no upper bound
sql_limit(rows, n) ==
    IF n < 0 THEN rows ELSE SubSeq(rows, 1, Min(n, Len(rows)))

\* GET /history: the ids of the records returned, in the order returned
get_analysis_history(db, limit, status) ==
    LET lim == Min(limit, max_limit)
        ordered == order_by_created_at_desc(db)
        matches(j) == db[j].status = status
        filtered == IF Truthy(status) THEN SelectSeq(ordered, matches)
                                      ELSE ordered
    IN sql_limit(filtered, lim)

\* an analyses table of n rows as earlier requests left it: row i is the
\* i-th insert, and the four statuses take turns
Table(n) ==
    [i \in 1..n |-> AnalysisRecord(<<"a", ".", "p", "d", "f">>,
                                   Statuses[(i % 4) + 1], i)]

TableSizes == <<120, 101, 100, 99, 5, 3, 1, 0>>
Limits == {-1, 0, 1, 2, default_limit, 99, max_limit, 101, 150}
StatusFilters == {None, "queued", "processing", "completed", "failed"}

Response(op, f, j, code) == [op |-> op, filename |-> f, id |-> j, code |-> code]

\* ------------------------------------------------------------------- Init
Init ==
    /\ store = [k \in {} |-> NoRow]
    /\ files = {}
    /\ nextId = 0
    /\ mode = [j \in Ids |-> "none"]
    /\ pc = [j \in Ids |-> "none"]
    /\ rec = [j \in Ids |-> FALSE]
    /\ retries = [j \in Ids |-> 0]
    /\ attempts = [j \in Ids |-> 0]
    /\ out = [j \in Ids |-> "none"]
    /\ lastExc = [j \in Ids |-> None]
    /\ rmFailed = [j \in Ids |-> FALSE]
    /\ rmCount = [j \in Ids |-> 0]
    /\ deleted = [j \in Ids |-> "no"]
    /\ dup = [j \in Ids |-> FALSE]
    /\ faults = 0
    /\ orig = [j \in Ids |-> Outcome(NoRow)]
    /\ reply = [j \in Ids |-> 0]
    /\ body = [j \in Ids |-> None]
    /\ resp = Response("none", <<>>, 0, 0)
    /\ hist = [asked |-> FALSE, n |-> 0, limit |-> default_limit,
               status |-> None, rows |-> <<>>]

workerVars == <<rec, retries, attempts, out, lastExc>>
cleanupVars == <<rmFailed, rmCount>>

\* ------------------------------------------------- POST /analyze (sync)
\* lines 74-101: validation, file write, record committed as processing;
\* the handler then sits in run_crew_sync
analyze_document(f) ==
    IF ~IsPdf(f)
    THEN /\ resp' = Response("sync", f, 0, 400)
         /\ UNCHANGED <<store, files, nextId, mode, pc, workerVars,
                        cleanupVars, deleted, dup, orig, reply, body>>
    ELSE /\ nextId < MaxJobs
         /\ LET j == nextId + 1 IN
            /\ nextId' = j
            /\ files' = files \cup {j}
            /\ store' = Insert(store, j, AnalysisRecord(f, "processing", j))
            /\ mode' = [mode EXCEPT ![j] = "sync"]
            /\ pc' = [pc EXCEPT ![j] = "running"]
            /\ attempts' = [attempts EXCEPT ![j] = @ + 1]
         /\ UNCHANGED <<rec, retries, out, lastExc, cleanupVars, deleted, dup,
                        orig, reply, body, resp>>

\* lines 104-140: run_crew_sync returns or raises, the record is updated,
\* the response is produced and the finally block removes the file; an
\* exception that left the finally block would replace the response by a 500
analyze_document_finish(j, o, rmOk) ==
    /\ mode[j] = "sync"
    /\ pc[j] = "running"
    /\ LET saved == o.ok /\ Found(store, j)
           exc == IF o.ok THEN StaleDataError ELSE o.val
           c == Cleanup(files, j, rmOk, rmFailed[j], rmCount[j])
           esc == j \in files /\ RemoveEscapes(rmOk)
           answered == saved /\ ~esc
       IN
       /\ store' = IF saved THEN SaveCompleted(store, j, o.val)
                            ELSE SaveFailedSync(store, j, exc)
       /\ reply' = [reply EXCEPT ![j] = IF answered THEN 200 ELSE 500]
       /\ body' = [body EXCEPT ![j] = IF answered THEN o.val ELSE None]
       /\ lastExc' = [lastExc EXCEPT ![j] = IF saved THEN @ ELSE exc]
       /\ files' = c[1]
       /\ rmFailed' = [rmFailed EXCEPT ![j] = c[2]]
       /\ rmCount' = [rmCount EXCEPT ![j] = c[3]]
    /\ pc' = [pc EXCEPT ![j] = "done"]
    /\ UNCHANGED <<nextId, mode, rec, retries, attempts, out, deleted,
                   dup, orig, resp>>

\* ------------------------------------------ POST /analyze/async
\* lines 158-204: import of the worker module, validation, file write,
\* record committed as queued, apply_async.  importOk is whether
\* `from worker import analyze_document_task` succeeds, enqueueOk whether
\* apply_async reaches the broker; when it raises, the exception leaves the
\* handler and FastAPI answers 500
analyze_document_async(f, importOk, enqueueOk) ==
    IF ~importOk
    THEN /\ resp' = Response("async", f, 0, 503)
         /\ UNCHANGED <<store, files, nextId, mode, pc, workerVars,
                        cleanupVars, deleted, dup, orig, reply, body>>
    ELSE IF ~IsPdf(f)
    THEN /\ resp' = Response("async", f, 0, 400)
         /\ UNCHANGED <<store, files, nextId, mode, pc, workerVars,
                        cleanupVars, deleted, dup, orig, reply, body>>
    ELSE /\ nextId < MaxJobs
         /\ LET j == nextId + 1 IN
            /\ nextId' = j
            /\ files' = files \cup {j}
            /\ store' = Insert(store, j, AnalysisRecord(f, "queued", j))
            /\ mode' = [mode EXCEPT ![j] = "async"]
            /\ pc' = [pc EXCEPT ![j] = IF enqueueOk THEN "queued" ELSE "unqueued"]
            /\ reply' = [reply EXCEPT ![j] = IF enqueueOk THEN 200 ELSE 500]
         /\ UNCHANGED <<workerVars, cleanupVars, deleted, dup, orig, body, resp>>

\* ------------------------------------------- worker: analyze_document_task
\* lines 49-57: a delivery is picked up, the record is queried and, when
\* found, committed as processing; the task then sits in kickoff
analyze_document_task(j) ==
    /\ mode[j] = "async"
    /\ pc[j] = "queued"
    /\ rec' = [rec EXCEPT ![j] = Found(store, j)]
    /\ store' = MarkProcessing(store, j)
    /\ attempts' = [attempts EXCEPT ![j] = @ + 1]
    /\ pc' = [pc EXCEPT ![j] = "running"]
    /\ UNCHANGED <<files, nextId, mode, retries, out, lastExc,
                   cleanupVars, deleted, dup, orig, reply, body, resp>>

\* lines 66-104: kickoff returns or raises; the result is saved, or the
\* except block saves the error and calls self.retry; finally removes the
\* file.  A commit of the completed row raises StaleDataError when the row
\* was deleted meanwhile, which lands in the same except block.  An
\* exception that left the finally block would replace the return value or
\* the Retry on its way to Celery, and the task would end in FAILURE
analyze_document_task_finish(j, o, rmOk) ==
    /\ mode[j] = "async"
    /\ pc[j] = "running"
    /\ LET saved == o.ok /\ (rec[j] => Found(store, j))
           exc == IF o.ok THEN StaleDataError ELSE o.val
           c == Cleanup(files, j, rmOk, rmFailed[j], rmCount[j])
           esc == j \in files /\ RemoveEscapes(rmOk)
           again == ~saved /\ ~esc /\ self_retry(retries[j]) = "retry"
       IN
       /\ store' = IF saved
                   THEN (IF rec[j] THEN SaveCompleted(store, j, o.val) ELSE store)
                   ELSE SaveFailedWorker(store, j, exc)
       /\ lastExc' = [lastExc EXCEPT ![j] = IF saved THEN @ ELSE exc]
       /\ out' = [out EXCEPT ![j] = IF saved /\ ~esc THEN "SUCCESS"
                                    ELSE IF again THEN "RETRY" ELSE "FAILURE"]
       /\ retries' = [retries EXCEPT ![j] = IF again THEN @ + 1 ELSE @]
       /\ pc' = [pc EXCEPT ![j] = IF again THEN "queued" ELSE "done"]
       /\ files' = c[1]
       /\ rmFailed' = [rmFailed EXCEPT ![j] = c[2]]
       /\ rmCount' = [rmCount EXCEPT ![j] = c[3]]
    /\ rec' = [rec EXCEPT ![j] = FALSE]
    /\ UNCHANGED <<nextId, mode, attempts, deleted, dup, orig, reply, body, resp>>

\* Queue boundary: delivery is at-least-once, so the message of a delivery
\* that already ended can be delivered again (same task id, same retries)
Redeliver(j) ==
    /\ mode[j] = "async"
    /\ pc[j] = "done"
    /\ dup' = [dup EXCEPT ![j] = TRUE]
    /\ orig' = [orig EXCEPT ![j] = Outcome(first(store, j))]
    /\ pc' = [pc EXCEPT ![j] = "queued"]
    /\ attempts' = [attempts EXCEPT ![j] = 0]
    /\ out' = [out EXCEPT ![j] = "none"]
    /\ UNCHANGED <<store, files, nextId, mode, rec, retries, lastExc,
                   cleanupVars, deleted, reply, body, resp>>

\* --------------------------------------------- DELETE /history/{task_id}
delete_analysis(j) ==
    IF ~Found(store, j)
    THEN /\ resp' = Response("delete", <<>>, j, 404)
         /\ UNCHANGED <<store, files, nextId, mode, pc, workerVars,
                        cleanupVars, deleted, dup, orig, reply, body>>
    ELSE /\ store' = Remove(store, j)
         /\ deleted' = [deleted EXCEPT ![j] =
                           IF pc[j] = "running" THEN "inflight" ELSE "idle"]
         /\ resp' = Response("delete", <<>>, j, 200)
         /\ UNCHANGED <<files, nextId, mode, pc, workerVars,
                        cleanupVars, dup, orig, reply, body>>

\* the handler reporting whatever fields the record has
get_task_status_AnyField(j) ==
    IF ~Found(store, j)
    THEN [code |-> 404, status |-> None, analysis |-> None, error |-> None,
          keys |-> {}]
    ELSE LET r == store[j] IN
         [code |-> 200, status |-> r.status,
          analysis |-> r.result, error |-> r.error,
          keys |-> {k \in {"analysis", "error"} :
                      \/ k = "analysis" /\ r.result # None
                      \/ k = "error" /\ r.error # None}]

\* ------------------------------------------------ GET /status/{task_id}
\* the response body as a record; absent keys are left out of the dict
get_task_status(j) ==
    IF ~Found(store, j)
    THEN [code |-> 404, status |-> None, analysis |-> None, error |-> None,
          keys |-> {}]
    ELSE LET r == store[j] IN
         [code |-> 200, status |-> r.status,
          analysis |-> IF r.status = "completed" THEN r.result ELSE None,
          error |-> IF r.status = "failed" THEN r.error ELSE None,
          keys |-> IF r.status = "completed" THEN {"analysis"}
                   ELSE IF r.status = "failed" THEN {"error"} ELSE {}]

\* ------------------------------------------------------- the environment
\* n more things go wrong in this step, within the budget of the run
Charge(n) ==
    /\ faults + n <= MaxFaults
    /\ faults' = faults + n

Bit(b) == IF b THEN 1 ELSE 0

\* the engine returns a report or raises a message no earlier call raised;
\* os.remove can only raise when it is called, that is when the file exists
EnvOk(j, o, rmOk) ==
    /\ ~rmOk => j \in files
    /\ Charge(Bit(~o.ok) + Bit(~rmOk))

SubmitSync ==
    \E f \in Filenames :
        analyze_document(f) /\ Charge(Bit(~IsPdf(f))) /\ UNCHANGED hist

SyncRun(j) ==
    \E o \in EngineOutcomes(faults), rmOk \in BOOLEAN :
        /\ EnvOk(j, o, rmOk)
        /\ analyze_document_finish(j, o, rmOk)
        /\ UNCHANGED hist

SubmitAsync ==
    \E f \in Filenames, importOk \in BOOLEAN, enqueueOk \in BOOLEAN :
        /\ ~importOk => enqueueOk
        /\ analyze_document_async(f, importOk, enqueueOk)
        /\ Charge(Bit(~importOk \/ ~IsPdf(f) \/ ~enqueueOk))
        /\ UNCHANGED hist

WorkerPickup(j) == analyze_document_task(j) /\ UNCHANGED <<faults, hist>>

WorkerRun(j) ==
    \E o \in EngineOutcomes(faults), rmOk \in BOOLEAN :
        /\ EnvOk(j, o, rmOk)
        /\ analyze_document_task_finish(j, o, rmOk)
        /\ UNCHANGED hist

Duplicate(j) == Redeliver(j) /\ Charge(1) /\ UNCHANGED hist

Delete(j) == delete_analysis(j) /\ Charge(1) /\ UNCHANGED hist

Next ==
    \/ SubmitSync
    \/ \E j \in Ids : SyncRun(j)
    \/ SubmitAsync
    \/ \E j \in Ids : WorkerPickup(j)
    \/ \E j \in Ids : WorkerRun(j)
    \/ \E j \in Ids : Duplicate(j)
    \/ \E j \in Ids : Delete(j)

Spec == Init /\ [][Next]_vars

\* the engine call returns or raises, the queue delivers what was enqueued
FairSpec ==
    /\ Spec
    /\ \A j \in Ids : WF_vars(WorkerPickup(j))
    /\ \A j \in Ids : WF_vars(WorkerRun(j))
    /\ \A j \in Ids : WF_vars(SyncRun(j))

\* ---------------------------------------------------- GET /history alone
\* the endpoint is a pure function of the table and its two parameters: it
\* is run once on a table of some size with some limit and filter
History ==
    /\ ~hist.asked
    /\ \E k \in DOMAIN TableSizes, limit \in Limits, status \in StatusFilters :
          LET n == TableSizes[k] IN
          hist' = [asked |-> TRUE, n |-> n, limit |-> limit, status |-> status,
                   rows |-> get_analysis_history(Table(n), limit, status)]
    /\ UNCHANGED <<store, files, nextId, mode, pc, rec, retries, attempts, out,
                   lastExc, rmFailed, rmCount, deleted, dup, faults, orig,
                   reply, body, resp>>

HistorySpec == Init /\ [][History]_vars

\* ================================================================ claims
Terminal == {"completed", "failed"}

ForwardMoves ==
    { <<"queued", "processing">>, <<"processing", "completed">>,
      <<"processing", "failed">> }

\* C1: every change of a record's stored status is queued->processing,
\* processing->completed or processing->failed, retried attempts included
C1_StatusMovesForward ==
    [][\A j \in Ids :
          (Found(store, j) /\ Found(store', j)
             /\ store'[j].status # store[j].status)
          => <<store[j].status, store'[j].status>> \in ForwardMoves]_vars

\* C2: a completed record has a result and no error, a failed record has an
\* error and no result
C2_TerminalHasOneOutcome ==
    \A j \in DOMAIN store :
       /\ store[j].status = "completed"
            => (store[j].result # None /\ store[j].error = None)
       /\ store[j].status = "failed"
            => (store[j].error # None /\ store[j].result = None)

\* C3: a queued or processing record has neither result nor error
C3_NoOutcomeBeforeTerminal ==
    \A j \in DOMAIN store :
       store[j].status \in {"queued", "processing"}
          => (store[j].result = None /\ store[j].error = None)

\* C4: once a duplicate of a delivery is made for a job whose record is
\* terminal, the record keeps the status, result and error it had then
C4_DuplicateKeepsOutcome ==
    \A j \in Ids :
       (dup[j] /\ orig[j].status \in Terminal /\ Found(store, j))
          => Outcome(store[j]) = orig[j]

\* C5: an async submission that the queue refused is answered 503 and
\* leaves neither a record nor a file
C5_RefusedAsyncLeavesNothing ==
    /\ \A j \in Ids :
          pc[j] = "unqueued"
             => (reply[j] = 503 /\ ~Found(store, j) /\ j \notin files)
    /\ (resp.op = "async" /\ resp.code = 503) => resp.id = 0

\* C6 as written: when the executor has finished a job its file is gone,
\* removed exactly once
C6_FileGoneAfterExecutor ==
    \A j \in Ids :
       /\ rmCount[j] <= 1
       /\ pc[j] = "done" => (j \notin files /\ rmCount[j] = 1)

\* C6 amended: when the executor has finished a job its file is gone,
\* removed exactly once, unless the last os.remove raised (swallowed), and
\* then the file is still there; no file is ever removed twice
C6_FileGoneUnlessRemoveRaised ==
    \A j \in Ids :
       /\ rmCount[j] <= 1
       /\ pc[j] = "done"
            => IF rmFailed[j] THEN j \in files /\ rmCount[j] = 0
                              ELSE j \notin files /\ rmCount[j] = 1

\* a worker delivery ended in failure and the file was removed once
C6_Witness ==
    \E j \in Ids :
       /\ pc[j] = "done" /\ out[j] = "FAILURE"
       /\ j \notin files /\ rmCount[j] = 1

\* C7: one delivery runs the task at most 3 times; when the third attempt
\* has failed the record is failed with the message of that last attempt
C7_AtMostThreeAttempts ==
    \A j \in Ids :
       /\ attempts[j] <= 3
       /\ (pc[j] = "done" /\ out[j] = "FAILURE" /\ attempts[j] = 3
             /\ Found(store, j))
            => (store[j].status = "failed" /\ store[j].error = lastExc[j])

\* three attempts of one delivery failed and the record shows the last error
C7_Witness ==
    \E j \in Ids :
       /\ pc[j] = "done" /\ out[j] = "FAILURE" /\ attempts[j] = 3
       /\ ~dup[j]
       /\ Found(store, j) /\ store[j].status = "failed"
       /\ store[j].error = lastExc[j]

\* C8: every record that is not deleted eventually is completed or failed
C8_EveryJobEnds ==
    \A j \in Ids :
       [](Found(store, j)
            => <>(~Found(store, j) \/ store[j].status \in Terminal))

\* C9: DELETE answers 404 and changes nothing when the id has no record,
\* and otherwise removes the record; an id once deleted stays unknown to
\* GET /status whatever an executor of that job does afterwards
C9_DeleteIsFinal ==
    /\ [][(resp' # resp /\ resp'.op = "delete")
            => IF Found(store, resp'.id)
               THEN resp'.code = 200 /\ ~Found(store', resp'.id)
               ELSE resp'.code = 404 /\ store' = store]_vars
    /\ [](\A j \in Ids :
             deleted[j] # "no" => get_task_status(j).code = 404)

\* a record was deleted while its executor was running, and that executor
\* has since finished
C9_Witness ==
    \E j \in Ids :
       /\ deleted[j] = "inflight" /\ pc[j] = "done"
       /\ get_task_status(j).code = 404

\* a file name that does not end in ".pdf", whatever its case
BadName(f) ==
    \/ Len(f) < 4
    \/ \E i \in 1..4 : LowerChar(f[Len(f) - 4 + i]) # DotPdf[i]

\* C10 as written: a submission with a bad file name is answered 400 and
\* changes neither the store nor the files; no record has a bad file name
C10_BadNameIs400 ==
    /\ [][(resp' # resp /\ resp'.op \in {"sync", "async"}
             /\ BadName(resp'.filename))
            => (resp'.code = 400 /\ UNCHANGED <<store, files>>)]_vars
    /\ [](\A j \in DOMAIN store : ~BadName(store[j].filename))

\* C10 amended: a submission with a bad file name is refused, with 400 or,
\* on the async path when the worker module cannot be imported, with 503,
\* and changes neither the store nor the files; no record has a bad name
C10_BadNameIsRefused ==
    /\ [][(resp' # resp /\ resp'.op \in {"sync", "async"}
             /\ BadName(resp'.filename))
            => (/\ \/ resp'.code = 400
                   \/ resp'.op = "async" /\ resp'.code = 503
                /\ UNCHANGED <<store, files>>)]_vars
    /\ [](\A j \in DOMAIN store : ~BadName(store[j].filename))

\* a bad file name was answered 400 while a record was in the store
C10_Witness ==
    /\ resp.op \in {"sync", "async"}
    /\ BadName(resp.filename)
    /\ resp.code = 400
    /\ DOMAIN store # {}

\* C11: when a sync submission fails during execution the caller gets a 500
\* and the record, if it is still there, is failed with the message of the
\* failure as its error
C11_SyncFailureIs500 ==
    \A j \in Ids :
       (mode[j] = "sync" /\ pc[j] = "done")
          => /\ lastExc[j] # None => reply[j] = 500
             /\ (reply[j] = 500 /\ Found(store, j))
                  => (/\ store[j].status = "failed"
                      /\ store[j].error = lastExc[j]
                      /\ store[j].error # None)

\* the engine raised in a sync submission whose record is still there
C11_Witness ==
    \E j \in Ids :
       /\ mode[j] = "sync" /\ pc[j] = "done" /\ reply[j] = 500
       /\ lastExc[j] \notin {None, StaleDataError}
       /\ Found(store, j) /\ store[j].status = "failed"
       /\ store[j].error = lastExc[j]

\* C12: a sync submission is answered only when its run is over; the answer
\* is a 200 carrying an analysis only if that step committed the record as
\* completed with that same analysis as result, and is a 500 without an
\* analysis otherwise; no answer exists while the record is processing
C12_SyncSuccessOnlyWhenCompleted ==
    /\ [][\A j \in Ids :
            (mode[j] = "sync" /\ reply'[j] # reply[j])
            => IF reply'[j] = 200
               THEN /\ body'[j] # None
                    /\ Found(store', j)
                    /\ store'[j].status = "completed"
                    /\ store'[j].result = body'[j]
               ELSE /\ reply'[j] = 500
                    /\ body'[j] = None
                    /\ Found(store', j) => store'[j].status = "failed"]_vars
    /\ [](\A j \in Ids :
            (mode[j] = "sync" /\ Found(store, j)
               /\ store[j].status \notin Terminal)
            => (reply[j] = 0 /\ body[j] = None /\ pc[j] = "running"))

\* a sync submission was answered 200 and its record holds the analysis
C12_Witness ==
    \E j \in Ids :
       /\ mode[j] = "sync" /\ reply[j] = 200 /\ body[j] # None
       /\ Found(store, j) /\ store[j].status = "completed"
       /\ store[j].result = body[j]

\* C13: for every limit and every table, GET /history returns exactly
\* min(limit, 100, number of records matching the filter) records, never
\* more than 100, and they are the latest matching records, latest first
C13_HistoryIsLatestUpToCap ==
    hist.asked =>
       LET db == Table(hist.n)
           M == {i \in DOMAIN db :
                    hist.status = None \/ db[i].status = hist.status}
           rows == hist.rows
           k == Len(rows)
       IN /\ k = Min(Min(hist.limit, max_limit), Cardinality(M))
          /\ k <= max_limit
          /\ \A i \in 1..k : rows[i] \in M
          /\ \A i \in 1..(k - 1) :
                db[rows[i]].created_at > db[rows[i + 1]].created_at
          /\ \A x \in M :
                \/ \E i \in 1..k : x = rows[i]
                \/ \A i \in 1..k : db[x].created_at < db[rows[i]].created_at

\* C14: GET /status answers 404 for an id without a record; for a record it
\* carries an analysis only when the status is completed, an error only
\* when it is failed, and neither while it is queued or processing,
\* whatever the record's result and error fields hold
C14_StatusShowsOutcomeOfItsStatus ==
    \A j \in Ids :
       LET r == get_task_status(j) IN
       IF j \notin DOMAIN store
       THEN r.code = 404 /\ r.keys = {}
       ELSE /\ r.code = 200 /\ r.status = store[j].status
            /\ "analysis" \in r.keys => store[j].status = "completed"
            /\ "error" \in r.keys => store[j].status = "failed"
            /\ store[j].status \in {"queued", "processing"}
                 => (r.keys = {} /\ r.analysis = None /\ r.error = None)
            /\ store[j].status = "completed" => r.analysis = store[j].result
            /\ store[j].status = "failed" => r.error = store[j].error

\* a record is processing again and still holds the error of a failed
\* attempt, and GET /status shows neither analysis nor error
C14_Witness ==
    \E j \in DOMAIN store :
       /\ store[j].status = "processing" /\ store[j].error # None
       /\ get_task_status(j).keys = {}
       /\ get_task_status(j).error = None

\* C15: a record written by the worker is failed only when the last
\* permitted attempt has failed: no record is failed while a retry of its
\* delivery is still to run
C15_FailedOnlyWhenExhausted ==
    \A j \in Ids :
       (mode[j] = "async" /\ Found(store, j) /\ store[j].status = "failed")
          => ~(pc[j] = "queued" /\ out[j] = "RETRY")

\* C16: the worker invokes the engine only for a delivery whose record it
\* found: a task that is in the engine call holds a record
C16_NoEngineWithoutRecord ==
    \A j \in Ids :
       (mode[j] = "async" /\ pc[j] = "running") => rec[j]

\* C17: the step that starts a job commits its record: a sync job enters
\* the engine call with its record processing, an async job is handed to
\* the queue with its record queued; the record stays so until the engine
\* returns or the worker picks the delivery up, unless it is deleted, and a
\* worker that finds no record meets a deleted one
C17_RecordBeforeExecution ==
    /\ [][\A j \in Ids :
            (pc[j] = "none" /\ pc'[j] # "none")
            => /\ Found(store', j)
               /\ mode'[j] = "sync"
                    => (pc'[j] = "running" /\ store'[j].status = "processing")
               /\ mode'[j] = "async"
                    => (pc'[j] # "running" /\ store'[j].status = "queued")]_vars
    /\ [](\A j \in Ids :
            /\ (mode[j] = "sync" /\ pc[j] = "running" /\ deleted[j] = "no")
                 => (Found(store, j) /\ store[j].status = "processing")
            /\ (mode[j] = "async" /\ pc[j] \in {"queued", "unqueued"}
                   /\ attempts[j] = 0 /\ ~dup[j] /\ deleted[j] = "no")
                 => (Found(store, j) /\ store[j].status = "queued")
            /\ (mode[j] = "async" /\ pc[j] = "running" /\ ~rec[j])
                 => deleted[j] # "no")

\* a worker is in the first engine call of a delivery and found the record,
\* while a sync submission is in its engine call
C17_Witness ==
    \E j, k \in Ids :
       /\ mode[j] = "async" /\ pc[j] = "running" /\ attempts[j] = 1
       /\ rec[j] /\ Found(store, j) /\ store[j].status = "processing"
       /\ mode[k] = "sync" /\ pc[k] = "running"
       /\ Found(store, k) /\ store[k].status = "processing"

\* C18: a record has duration_seconds exactly when it has completed_at
C18_TimingFieldsTogether ==
    \A j \in DOMAIN store :
       (store[j].duration_seconds # None) <=> (store[j].completed_at # None)

\* C19: a step of one job -- its submission, a worker pickup, the end of an
\* engine call with its store write and file removal, a redelivery --
\* leaves the record and the file of every other job as they were
C19_JobsDoNotInterfere ==
    [][\A a \in Ids :
          pc'[a] # pc[a]
          => \A b \in Ids \ {a} :
                /\ Found(store', b) <=> Found(store, b)
                /\ Found(store, b) => store'[b] = store[b]
                /\ b \in files' <=> b \in files]_vars

\* the second job ran to its end, with a store write and its file removed,
\* while the first sat in its engine call with record and file in place
C19_Witness ==
    /\ pc[1] = "running" /\ Found(store, 1) /\ 1 \in files
    /\ store[1].status = "processing"
    /\ pc[2] = "done" /\ Found(store, 2) /\ store[2].status \in Terminal
    /\ 2 \notin files

\* C20: what the end of an engine call answers or reports, and what it
\* leaves in the record, follows from whether the call or the commit raised
\* and from nothing else, so it is the same when os.remove raises as when
\* it succeeds
C20_RemoveFailureIsSwallowed ==
    [][\A j \in Ids :
          (pc[j] = "running" /\ pc'[j] # "running")
          => LET raised == lastExc'[j] # lastExc[j] IN
             /\ mode[j] = "sync"
                  => /\ reply'[j] = IF raised THEN 500 ELSE 200
                     /\ body'[j] = IF raised THEN None ELSE "report"
             /\ mode[j] = "async"
                  => out'[j] = IF ~raised THEN "SUCCESS"
                               ELSE IF retries[j] < max_retries THEN "RETRY"
                               ELSE "FAILURE"
             /\ Found(store', j)
                  => IF raised
                     THEN /\ store'[j].status = "failed"
                          /\ store'[j].error = lastExc'[j]
                          /\ store'[j].result = store[j].result
                     ELSE /\ store'[j].error = store[j].error
                          /\ IF mode[j] = "sync" \/ rec[j]
                             THEN /\ store'[j].status = "completed"
                                  /\ store'[j].result = "report"
                             ELSE store'[j] = store[j]]_vars

\* os.remove raised at the end of a run that succeeded: the file is still
\* there, the record is completed and the caller or Celery was told success
C20_Witness ==
    \E j \in Ids :
       /\ pc[j] = "done" /\ rmFailed[j] /\ j \in files
       /\ Found(store, j) /\ store[j].status = "completed"
       /\ \/ mode[j] = "sync" /\ reply[j] = 200
          \/ mode[j] = "async" /\ out[j] = "SUCCESS"

\* C21: whenever the worker is in the engine call for a job, on the first
\* attempt and on every retry of the same delivery, the job's file exists
C21_FileThereAtEveryAttempt ==
    \A j \in Ids :
       (mode[j] = "async" /\ pc[j] = "running" /\ ~dup[j]) => j \in files

\* C22: when the attempts of a delivery are over and the record was not
\* deleted, its status is that of the last attempt: completed when that
\* attempt's engine call returned, failed with that attempt's message when
\* it raised, whatever earlier attempts wrote
C22_StatusIsLastAttempts ==
    \A j \in Ids :
       (mode[j] = "async" /\ pc[j] = "done" /\ deleted[j] = "no")
          => /\ Found(store, j)
             /\ out[j] \in {"SUCCESS", "FAILURE"}
             /\ out[j] = "SUCCESS"
                  => (store[j].status = "completed"
                        /\ store[j].result = "report")
             /\ out[j] = "FAILURE"
                  => (store[j].status = "failed"
                        /\ store[j].error = lastExc[j])

\* a delivery whose first attempt failed ended with an attempt that
\* succeeded: the record is completed and still holds the earlier error
C22_Witness ==
    \E j \in Ids :
       /\ mode[j] = "async" /\ pc[j] = "done" /\ deleted[j] = "no"
       /\ attempts[j] >= 2 /\ out[j] = "SUCCESS"
       /\ store[j].status = "completed" /\ store[j].error # None

\* C23: a sync submission calls the engine at most once and is never
\* retried; once its run is over the record, while it exists, is failed
\* with the message when the call or the commit raised and completed
\* otherwise, in every later state
C23_SyncRunsOnce ==
    \A j \in Ids :
       mode[j] = "sync"
          => /\ attempts[j] = 1 /\ retries[j] = 0 /\ out[j] = "none"
             /\ pc[j] \in {"running", "done"}
             /\ (pc[j] = "done" /\ Found(store, j))
                  => IF lastExc[j] # None
                     THEN /\ store[j].status = "failed"
                          /\ store[j].error = lastExc[j]
                          /\ reply[j] = 500
                     ELSE /\ store[j].status = "completed"
                          /\ reply[j] = 200

\* the one engine call of a sync submission raised, the record is failed,
\* and other requests were served since
C23_Witness ==
    \E j \in Ids :
       /\ mode[j] = "sync" /\ pc[j] = "done" /\ attempts[j] = 1
       /\ lastExc[j] \notin {None, StaleDataError}
       /\ Found(store, j) /\ store[j].status = "failed"
       /\ nextId > j
====
